---- MODULE Spec2Model ----
(***************************************************************************)
(* Model of src/analyze_critical_growth.py: the threshold detector, the    *)
(* two log-space fitters, the AIC selection, the batch loop of main() and  *)
(* the universality (consistency) summary.                                 *)
(*                                                                         *)
(* Numbers.  TLC has integers only, so real values are held exactly:       *)
(*  - a rational is a pair <<num, den>> with den > 0, in lowest terms;     *)
(*  - loads and delays are powers of two, so that every logarithm the code *)
(*    takes is an integer multiple of log(2): LogB(v) is that multiple.    *)
(*    np.log10(v) = LogB(v) * log10(2) and np.log(v) = LogB(v) * ln(2).    *)
(*    The local slope is a ratio of two log10 differences, so the unit     *)
(*    cancels and the slope is the exact rational the code approximates in *)
(*    floating point.  In the fits the response ln(y) is in units of ln 2, *)
(*    so RSS and TSS are in units of (ln 2)^2 for both fits alike.         *)
(*  - not-a-number and +infinity are explicit variants of a record.        *)
(* Indices returned by the code (idx_th) are kept 0-based as in Python;     *)
(* TLA+ sequences are 1-based, so element idx of an array a is a[idx + 1]. *)
(***************************************************************************)
EXTENDS Integers, Sequences, FiniteSets, TLC

\* ------------------------------------------------------------------ bounds
\* longest curve handed to the core in SpecCore
MaxLen == 4
\* most rows of a summary sheet in Spec
MaxRows == 2
\* number of datasets of a run in Spec (main() configures four)
NumDatasets == 2
\* longest group of selected parameters in SpecSummary
MaxGroup == 3
\* longest array handed to rolling_median in SpecSmooth
MaxSmoothLen == 4
\* longest curve handed to compute_local_log_slope in SpecSlope
MaxSlopeLen == 4

\* SpecCore: exponents of the loads (load = 2^e) and of the delays
\* (delay = 2^e), and the configurations tried
LoadExps == {0, 1, 2, 4}
DelayExps == 0..2
Cutoffs == 0..1
Persistences == 1..3
Windows == 1..3
\* Spec: exponents of the numeric cells of the value column and of the
\* positive cells of the mean column
ValueExps == 0..1
MeanExps == 0..1
\* SpecSummary: the selected parameters of a group
ParamValues == -2..2

\* the configuration main() sets
DefaultCutoff == 1
DefaultPersistence == 3
DefaultWindow == 3

\* ----------------------------------------------------------- arithmetic
Abs(i) == IF i < 0 THEN -i ELSE i

RECURSIVE GCD(_, _)
GCD(a, b) == IF b = 0 THEN a ELSE GCD(b, a % b)

\* the rational n/d (d # 0) in lowest terms with a positive denominator
Reduce(n, d, g) == IF d < 0 THEN << (-n) \div g, (-d) \div g >> ELSE << n \div g, d \div g >>

Rat(n, d) == Reduce(n, d, GCD(Abs(n), Abs(d)))

RInt(i) == << i, 1 >>
RLt(a, b) == a[1] * b[2] < b[1] * a[2]
RLe(a, b) == a[1] * b[2] <= b[1] * a[2]
RAdd(a, b) == Rat(a[1] * b[2] + b[1] * a[2], a[2] * b[2])
RSub(a, b) == Rat(a[1] * b[2] - b[1] * a[2], a[2] * b[2])
RMul(a, b) == Rat(a[1] * b[1], a[2] * b[2])
RDiv(a, b) == Rat(a[1] * b[2], a[2] * b[1])

RECURSIVE Pow2(_)
Pow2(e) == IF e = 0 THEN 1 ELSE 2 * Pow2(e - 1)

\* np.log10 / np.log of a power of two, in units of log(2)
RECURSIVE LogB(_)
LogB(v) == IF v <= 1 THEN 0 ELSE 1 + LogB(v \div 2)

\* a result of a call: a value, or the exception the call raised
Ok(v) == [raised |-> "none", val |-> v]
Raise(e) == [raised |-> e, val |-> <<>>]

\* ------------------------------------------------------- rolling_median
\* mutant: the element at position n // 2 of the sorted slice, which is the
\* median for an odd n only
MedianUpper(srt, n) == srt[n \div 2 + 1]

\* mutant: the mean of the slice in place of its median
RECURSIVE SumSorted(_, _)
SumSorted(srt, n) == IF n = 0 THEN RInt(0) ELSE RAdd(SumSorted(srt, n - 1), srt[n])

MeanSorted(srt, n) == RDiv(SumSorted(srt, n), RInt(n))

\* np.median of a non-empty sequence of rationals
MedianSorted(srt, n) ==
    IF n % 2 = 1 THEN srt[(n + 1) \div 2]
    ELSE RDiv(RAdd(srt[n \div 2], srt[n \div 2 + 1]), RInt(2))

Median(w) == MedianSorted(SortSeq(w, RLt), Len(w))

\* mutant: np.pad's default mode, zeros at both ends
PadConstant(a, pad) ==
    [j \in 1..(Len(a) + 2 * pad) |->
        IF j <= pad \/ j > pad + Len(a) THEN RInt(0) ELSE a[j - pad]]

\* np.pad(a, (pad, pad), mode="edge") of a non-empty sequence
PadEdge(a, pad) ==
    [j \in 1..(Len(a) + 2 * pad) |->
        IF j <= pad THEN a[1]
        ELSE IF j > pad + Len(a) THEN a[Len(a)]
        ELSE a[j - pad]]

\* mutant: the guard on the window is left out; a window below 1 then
\* reaches np.pad and np.median, which have no median to give
rolling_median_NoGuard(a, window) ==
    IF window <= 0 THEN Raise("ValueError")
    ELSE IF Len(a) = 0 THEN Raise("ValueError")
    ELSE Ok([i \in 1..Len(a) |->
                Median(SubSeq(PadEdge(a, window \div 2), i, i + window - 1))])

rolling_median(a, window) ==
    IF window <= 1 THEN Ok(a)
    ELSE IF Len(a) = 0 THEN Raise("ValueError")
    ELSE LET pad == window \div 2
             padded == PadEdge(a, pad)
         IN  Ok([i \in 1..Len(a) |-> Median(SubSeq(padded, i, i + window - 1))])

\* ----------------------------------------------- compute_local_log_slope
\* mutant: the forward difference at every point but the last (np.diff with
\* the last difference repeated), no central difference
GradientForward(f) ==
    LET n == Len(f)
    IN  IF n < 2 THEN Raise("ValueError")
        ELSE Ok([i \in 1..n |->
                    IF i = n THEN RInt(f[n] - f[n - 1])
                    ELSE RInt(f[i + 1] - f[i])])

\* np.gradient(f) with unit spacing: needs at least two elements
Gradient(f) ==
    LET n == Len(f)
    IN  IF n < 2 THEN Raise("ValueError")
        ELSE Ok([i \in 1..n |->
                    IF i = 1 THEN RInt(f[2] - f[1])
                    ELSE IF i = n THEN RInt(f[n] - f[n - 1])
                    ELSE Rat(f[i + 1] - f[i - 1], 2)])

\* mutant: the difference of the two gradients in place of their ratio
RawSlopeDifference(dly, dlx) ==
    [i \in 1..Len(dly) |->
        IF dlx[i][1] # 0 THEN RSub(dly[i], dlx[i]) ELSE RInt(0)]

\* np.divide(dly, dlx, out=zeros, where=dlx != 0)
RawSlope(dly, dlx) ==
    [i \in 1..Len(dly) |->
        IF dlx[i][1] # 0 THEN RDiv(dly[i], dlx[i]) ELSE RInt(0)]

\* the slope of the two gradients, smoothed; a gradient that raised ends it
SlopeOf(dly, dlx, window) ==
    IF dly.raised # "none" THEN dly
    ELSE IF dlx.raised # "none" THEN dlx
    ELSE rolling_median(RawSlope(dly.val, dlx.val), window)

compute_local_log_slope(xs, ys, window) ==
    SlopeOf(Gradient([i \in 1..Len(ys) |-> LogB(ys[i])]),
            Gradient([i \in 1..Len(xs) |-> LogB(xs[i])]), window)

\* ------------------------------------------------------ detect_threshold
\* the boolean array s >= slope_cutoff
Above(s, cutoff) == [i \in 1..Len(s) |-> RLe(RInt(cutoff), s[i])]

\* mutant: the run counter is never reset on a point below the cutoff
RECURSIVE ScanRunNoReset(_, _, _, _)
ScanRunNoReset(above, persist, i, count) ==
    IF i >= Len(above) THEN [found |-> FALSE, idx |-> 0]
    ELSE IF above[i + 1]
         THEN IF count + 1 >= persist
              THEN [found |-> TRUE, idx |-> i - persist + 1]
              ELSE ScanRunNoReset(above, persist, i + 1, count + 1)
         ELSE ScanRunNoReset(above, persist, i + 1, count)

\* mutant: persistence is ignored, the first point at or above the cutoff
\* is returned
RECURSIVE ScanRunFirstAbove(_, _, _, _)
ScanRunFirstAbove(above, persist, i, count) ==
    IF i >= Len(above) THEN [found |-> FALSE, idx |-> 0]
    ELSE IF above[i + 1] THEN [found |-> TRUE, idx |-> i]
    ELSE ScanRunFirstAbove(above, persist, i + 1, 0)

\* mutant: the run must be one point longer than `persistence`
RECURSIVE ScanRunTooLong(_, _, _, _)
ScanRunTooLong(above, persist, i, count) ==
    IF i >= Len(above) THEN [found |-> FALSE, idx |-> 0]
    ELSE IF above[i + 1]
         THEN IF count + 1 > persist
              THEN [found |-> TRUE, idx |-> i - persist + 1]
              ELSE ScanRunTooLong(above, persist, i + 1, count + 1)
         ELSE ScanRunTooLong(above, persist, i + 1, 0)

\* mutant: the index returned is that of the run's last point
RECURSIVE ScanRunLastIndex(_, _, _, _)
ScanRunLastIndex(above, persist, i, count) ==
    IF i >= Len(above) THEN [found |-> FALSE, idx |-> 0]
    ELSE IF above[i + 1]
         THEN IF count + 1 >= persist
              THEN [found |-> TRUE, idx |-> i]
              ELSE ScanRunLastIndex(above, persist, i + 1, count + 1)
         ELSE ScanRunLastIndex(above, persist, i + 1, 0)

\* the scan loop from 0-based position i with the run counter at count:
\* the index returned from inside the loop, or found = FALSE when the loop
\* runs out
RECURSIVE ScanRun(_, _, _, _)
ScanRun(above, persist, i, count) ==
    IF i >= Len(above) THEN [found |-> FALSE, idx |-> 0]
    ELSE IF above[i + 1]
         THEN IF count + 1 >= persist
              THEN [found |-> TRUE, idx |-> i - persist + 1]
              ELSE ScanRun(above, persist, i + 1, count + 1)
         ELSE ScanRun(above, persist, i + 1, 0)

\* np.argmax from 0-based position i, with the best position so far at b:
\* a later element replaces the best only when strictly larger
RECURSIVE ArgMaxFrom(_, _, _)
ArgMaxFrom(s, i, b) ==
    IF i >= Len(s) THEN b
    ELSE ArgMaxFrom(s, i + 1, IF RLt(s[b + 1], s[i + 1]) THEN i ELSE b)

\* mutant: the fallback the docstring names, index 0
FallbackZero(s) == 0

\* the fallback of the last line: int(np.argmax(s)) if len(s) else 0
Fallback(s) == IF Len(s) > 0 THEN ArgMaxFrom(s, 1, 0) ELSE 0

\* the loop and the fallback, on the profile s
ScanOrFallback(s, hit) == IF hit.found THEN hit.idx ELSE Fallback(s)

DetectOn(s, cutoff, persist) ==
    IF s.raised # "none" THEN s
    ELSE Ok(ScanOrFallback(s.val, ScanRun(Above(s.val, cutoff), persist, 0, 0)))

detect_threshold(xs, ys, cutoff, persist, window) ==
    DetectOn(compute_local_log_slope(xs, ys, window), cutoff, persist)


\* ------------------------------------------- fit_exponential, fit_powerlaw
RECURSIVE SumSeq(_)
SumSeq(s) == IF Len(s) = 0 THEN 0 ELSE Head(s) + SumSeq(Tail(s))

\* k = 2: the number of fitted parameters in the AIC
NumParams == 2

\* np.linalg.lstsq of the responses v on the design matrix [1, u], for
\* integer u and v of the same non-zero length, with the sums of squares
\* the fitters derive from it.  With A = n*Sum(u^2) - Sum(u)^2 > 0 the
\* matrix has full rank and the solution is ordinary least squares; with
\* A = 0 (all u equal, one point included) it is rank-deficient and lstsq
\* returns the minimum-norm solution, whose fitted values are the mean of v.
LstSq(u, v) ==
    LET n == Len(u)
        Su == SumSeq(u)
        Sv == SumSeq(v)
        Suu == SumSeq([i \in 1..n |-> u[i] * u[i]])
        Suv == SumSeq([i \in 1..n |-> u[i] * v[i]])
        Svv == SumSeq([i \in 1..n |-> v[i] * v[i]])
        A == n * Suu - Su * Su
        B == n * Suv - Su * Sv
        C == n * Svv - Sv * Sv
    IN  IF A > 0
        THEN [slope |-> Rat(B, A),
              intercept |-> Rat(Sv * A - B * Su, n * A),
              rss |-> Rat(A * C - B * B, n * A),
              tss |-> Rat(C, n)]
        ELSE [slope |-> Rat(Sv * u[1], n * (1 + u[1] * u[1])),
              intercept |-> Rat(Sv, n * (1 + u[1] * u[1])),
              rss |-> Rat(C, n),
              tss |-> Rat(C, n)]

\* mutant: the guard one point too low, n > 1
AicOfFromTwo(n, rss) ==
    IF n > 1 THEN [kind |-> "fin", n |-> n, rss |-> rss, k |-> NumParams]
    ELSE [kind |-> "inf", n |-> 0, rss |-> RInt(0), k |-> 0]

\* aic = n * np.log(rss / n) + 2 * k if n > 2 else np.inf.  The finite value
\* is kept as the triple it is computed from (the logarithm of a rational is
\* not a rational); rss = 0 gives -infinity in the code and is the least
\* value here.
AicOf(n, rss) ==
    IF n > 2 THEN [kind |-> "fin", n |-> n, rss |-> rss, k |-> NumParams]
    ELSE [kind |-> "inf", n |-> 0, rss |-> RInt(0), k |-> 0]

\* a.aic < b.aic for two fits of the same n points with the same k:
\* n*ln(rss/n) + 2k is strictly increasing in rss, +infinity is less than
\* nothing and nothing but a finite value is less than +infinity
AicLt(a, b) ==
    IF a.kind = "inf" THEN FALSE
    ELSE IF b.kind = "inf" THEN TRUE
    ELSE RLt(a.rss, b.rss)

\* r2 = 1 - rss / tss if tss > 0 else 0.0
RSquared(rss, tss) ==
    IF RLt(RInt(0), tss) THEN RSub(RInt(1), RDiv(rss, tss)) ELSE RInt(0)

FitResult(model, f, n) ==
    [model |-> model, param |-> f.slope, intercept |-> f.intercept,
     r2 |-> RSquared(f.rss, f.tss), aic |-> AicOf(n, f.rss), n |-> n]

\* log(y) = a + b * x; param and intercept are in units of ln 2
fit_exponential(xs, ys) ==
    FitResult("exp", LstSq(xs, [i \in 1..Len(ys) |-> LogB(ys[i])]), Len(xs))

\* log(y) = c + d * log(x); the intercept is in units of ln 2
fit_powerlaw(xs, ys) ==
    FitResult("pow", LstSq([i \in 1..Len(xs) |-> LogB(xs[i])],
                           [i \in 1..Len(ys) |-> LogB(ys[i])]), Len(xs))

\* mutant: the comparison turned round, ties going to the exponential fit
SelectBestTieExp(e, p) == IF AicLt(p.aic, e.aic) THEN p ELSE e

\* best = fe if fe.aic < fp.aic else fp
SelectBest(e, p) == IF AicLt(e.aic, p.aic) THEN e ELSE p

\* a[idx:], for a 0-based idx
SliceFrom(a, idx) == SubSeq(a, idx + 1, Len(a))

NoFit == [model |-> "none", param |-> RInt(0), intercept |-> RInt(0),
          r2 |-> RInt(0), aic |-> AicOf(0, RInt(0)), n |-> 0]

\* mutant: a window of at most 1 hands the argument itself back
ReturnedArrayNoCopy(window) == IF window <= 1 THEN "a" ELSE "out"

\* the array object rolling_median returns: the copy of line 64 or the
\* array allocated at line 67; "a" names the argument's own array
ReturnedArray(window) == IF window <= 1 THEN "a.copy()" ELSE "out"

\* ------------------------------------------------------------------ state
VARIABLES
    pc,             \* where the run stands
    k,              \* 1-based position of the current dataset in configs
    rows,           \* main's list of result rows
    x, y,           \* the curve of the current dataset
    slope_cutoff, persistence, smooth_window,   \* the run's configuration
    slope,          \* detect_threshold's s: the smoothed slope profile
    idx_th,         \* the detected threshold index (0-based)
    fe, fp, best,   \* the two fits of the current dataset and the selected
    exc,            \* the exception that ended the run, or "none"
    table_written,  \* threshold_and_growth.csv has been written
    summary_rows,   \* the rows of universality_summary.csv, once computed
    rm_a, rm_window,    \* rolling_median's arguments a and window
    rm_out,         \* rolling_median's result
    rm_ret          \* which array object rolling_median returned, or "none"

\* the arguments and the result of a call of rolling_median
rmVars == << rm_a, rm_window, rm_out, rm_ret >>

vars == << pc, k, rows, x, y, slope_cutoff, persistence, smooth_window,
           slope, idx_th, fe, fp, best, exc, table_written, summary_rows,
           rm_a, rm_window, rm_out, rm_ret >>

Loads == { Pow2(e) : e \in LoadExps }
Delays == { Pow2(e) : e \in DelayExps }

\* curves as read_summary_series leaves them: sorted by load, delay > 0
Curves(n) ==
    { c \in [1..n -> Loads \X Delays] :
        \A i \in 1..(n - 1) : c[i][1] <= c[i + 1][1] }

\* mutant: the exception is caught in the loop and the dataset tried again
AfterRaiseCaught == "read"

\* pc after an exception: nothing in main or below it catches one
AfterRaise == "crashed"

\* lines 163-166: detect_threshold (its profile s, then the scan and the
\* fallback), then x[idx_th] and y[idx_th]
DetectThreshold ==
    /\ pc = "detect"
    /\ \E s \in { compute_local_log_slope(x, y, smooth_window) } :
       \E r \in { DetectOn(s, slope_cutoff, persistence) } :
           IF r.raised # "none"
           THEN /\ pc' = AfterRaise
                /\ exc' = r.raised
                /\ UNCHANGED << slope, idx_th >>
           ELSE IF r.val < -Len(x) \/ r.val >= Len(x)
           THEN /\ pc' = AfterRaise
                /\ exc' = "IndexError"
                /\ slope' = s.val
                /\ idx_th' = r.val
           ELSE /\ pc' = "fit"
                /\ exc' = exc
                /\ slope' = s.val
                /\ idx_th' = r.val
    /\ UNCHANGED << k, rows, x, y, slope_cutoff, persistence, smooth_window,
                    fe, fp, best, table_written, summary_rows >>
    /\ UNCHANGED rmVars

\* lines 169-173: both fits on the post-threshold slice, and the selection
FitModels ==
    /\ pc = "fit"
    /\ \E e \in { fit_exponential(SliceFrom(x, idx_th), SliceFrom(y, idx_th)) } :
       \E p \in { fit_powerlaw(SliceFrom(x, idx_th), SliceFrom(y, idx_th)) } :
           /\ fe' = e
           /\ fp' = p
           /\ best' = SelectBest(e, p)
    /\ pc' = "append"
    /\ UNCHANGED << k, rows, x, y, slope_cutoff, persistence, smooth_window,
                    slope, idx_th, exc, table_written, summary_rows >>
    /\ UNCHANGED rmVars

\* ------------------------------------------------------ read_summary_series
\* a cell after pd.to_numeric(errors="coerce"): a number, or not-a-number
\* (a blank cell or one that is no number).  The sheets tried have blank
\* cells in the value column and non-positive cells in the mean column.
NaNCell == [nan |-> TRUE, v |-> 0]
Num(v) == [nan |-> FALSE, v |-> v]

ValueCells == { NaNCell } \cup { Num(Pow2(e)) : e \in ValueExps }
MeanCells == { Num(0) } \cup { Num(Pow2(e)) : e \in MeanExps }

\* the rows of a summary sheet: << value cell, mean cell >>
Tables(n) == [1..n -> ValueCells \X MeanCells]

\* the sets of columns a summary sheet may have
ColumnSets == SUBSET { "value", "mean_delay_s", "mean_delta_s" }

\* those with the value column and a mean column: the others end the read
\* before a row is looked at
GoodColumnSets ==
    { c \in ColumnSets : "value" \in c /\ c \cap { "mean_delay_s", "mean_delta_s" } # {} }

_detect_mean_column(columns) ==
    IF "mean_delay_s" \in columns THEN Ok("mean_delay_s")
    ELSE IF "mean_delta_s" \in columns THEN Ok("mean_delta_s")
    ELSE Raise("SystemExit")

\* data.dropna(subset=[value_column, mean_column])
DropNa(t) == SelectSeq(t, LAMBDA r : ~ r[1].nan /\ ~ r[2].nan)

\* mutant: the sort is left out, the rows stay in any order
AnyOrder(t) ==
    { [i \in 1..Len(t) |-> t[f[i]]] :
        f \in { g \in [1..Len(t) -> 1..Len(t)] :
                  \A i, j \in 1..Len(t) : i # j => g[i] # g[j] } }

\* data.sort_values(value_column): the rows in ascending order of value.
\* The default sort is not stable, so rows of equal value may come out in
\* any order: every sorted arrangement is an outcome.
SortedOrders(t) ==
    { [i \in 1..Len(t) |-> t[f[i]]] :
        f \in { g \in [1..Len(t) -> 1..Len(t)] :
                  /\ \A i, j \in 1..Len(t) : i # j => g[i] # g[j]
                  /\ \A i \in 1..(Len(t) - 1) : t[g[i]][1].v <= t[g[i + 1]][1].v } }

\* x_vals = value * 2.0, y_vals = mean, both under the mask y_vals > 0
MaskedSeries(t) ==
    LET kept == SelectSeq(t, LAMBDA r : r[2].v > 0)
    IN  [x |-> [i \in 1..Len(kept) |-> kept[i][1].v * 2],
         y |-> [i \in 1..Len(kept) |-> kept[i][2].v]]

\* the results read_summary_series may return for a sheet
read_summary_series(columns, t) ==
    IF "value" \notin columns THEN { Raise("SystemExit") }
    ELSE IF _detect_mean_column(columns).raised # "none"
         THEN { _detect_mean_column(columns) }
    ELSE { Ok(MaskedSeries(s)) : s \in SortedOrders(DropNa(t)) }

\* --------------------------------------------------------------- main
\* lines 266-276: the universality summary of one method's parameters.
\* The mean is a rational; the standard deviation and the coefficient of
\* variation are held as sgn * sqrt(sq) with sq a rational, since a square
\* root of a rational is not a rational.
NaNReal == [nan |-> TRUE, sgn |-> 0, sq |-> RInt(0)]
Sgn(i) == IF i > 0 THEN 1 ELSE IF i < 0 THEN -1 ELSE 0

RECURSIVE RSum(_)
RSum(s) == IF Len(s) = 0 THEN RInt(0) ELSE RAdd(Head(s), RSum(Tail(s)))

\* float(np.mean(params)) if len(params) else np.nan
MeanOf(params) ==
    IF Len(params) > 0
    THEN [nan |-> FALSE, val |-> RDiv(RSum(params), RInt(Len(params)))]
    ELSE [nan |-> TRUE, val |-> RInt(0)]

\* the sum of the squared deviations from the mean mu
SquaredDeviations(params, mu) ==
    RSum([i \in 1..Len(params) |->
             RMul(RSub(params[i], mu), RSub(params[i], mu))])

\* mutant: ddof left at 0, the divisor is n
PopulationStd(params) ==
    IF Len(params) > 1
    THEN LET var == RDiv(SquaredDeviations(params, MeanOf(params).val),
                         RInt(Len(params)))
         IN  [nan |-> FALSE, sgn |-> Sgn(var[1]), sq |-> var]
    ELSE NaNReal

\* float(np.std(params, ddof=1)) if len(params) > 1 else np.nan
SampleStd(params) ==
    IF Len(params) > 1
    THEN LET var == RDiv(SquaredDeviations(params, MeanOf(params).val),
                         RInt(Len(params) - 1))
         IN  [nan |-> FALSE, sgn |-> Sgn(var[1]), sq |-> var]
    ELSE NaNReal

\* float(sigma / mu) if (mu and not isnan(mu) and not isnan(sigma)) else nan
CovOf(mu, sigma) ==
    IF (mu.nan \/ mu.val[1] # 0) /\ ~ mu.nan /\ ~ sigma.nan
    THEN [nan |-> FALSE, sgn |-> sigma.sgn * Sgn(mu.val[1]),
          sq |-> RDiv(sigma.sq, RMul(mu.val, mu.val))]
    ELSE NaNReal

\* the rows of df whose method is m
Subset(rs, m) == SelectSeq(rs, LAMBDA r : r.method = m)

\* the summary_rows of the loop over ["trip"]: an empty subset adds none
UniversalityRows(rs) ==
    LET params == [i \in 1..Len(Subset(rs, "trip")) |-> Subset(rs, "trip")[i].param]
    IN  IF Len(params) = 0 THEN << >>
        ELSE << [method |-> "trip",
                 mean_param |-> MeanOf(params),
                 std_param |-> SampleStd(params),
                 cov |-> CovOf(MeanOf(params), SampleStd(params))] >>

\* lines 154-160: the path check and read_summary_series.  The file of the
\* current dataset is whatever the file system holds: missing
\* (FileNotFoundError), a workbook with no sheet named summary (read_excel
\* raises ValueError), or a summary sheet with some columns and some rows.
ReadSeries ==
    /\ pc = "read"
    /\ \/ /\ pc' = AfterRaise
          /\ exc' \in { "FileNotFoundError", "ValueError" }
          /\ UNCHANGED << x, y >>
       \/ \E columns \in ColumnSets \ GoodColumnSets :
          \E r \in read_summary_series(columns, << >>) :
              /\ pc' = AfterRaise
              /\ exc' = r.raised
              /\ UNCHANGED << x, y >>
       \/ \E columns \in GoodColumnSets : \E n \in 0..MaxRows : \E t \in Tables(n) :
          \E r \in read_summary_series(columns, t) :
              /\ pc' = "detect"
              /\ exc' = exc
              /\ x' = r.val.x
              /\ y' = r.val.y
    /\ UNCHANGED << k, rows, slope_cutoff, persistence, smooth_window, slope,
                    idx_th, fe, fp, best, table_written, summary_rows >>
    /\ UNCHANGED rmVars

\* mutant: the analysis is cached under the method alone, so every dataset
\* after the first gets the first one's result
AppendRowCached ==
    /\ pc = "append"
    /\ rows' = Append(rows,
                      IF rows # << >> THEN [rows[1] EXCEPT !.city = k]
                      ELSE [city |-> k, method |-> "trip",
                            x_th |-> x[idx_th + 1], y_th |-> y[idx_th + 1],
                            model_selected |-> best.model,
                            param |-> best.param, r2 |-> best.r2,
                            aic_exp |-> fe.aic, aic_pow |-> fp.aic])
    /\ IF k < NumDatasets
       THEN /\ k' = k + 1
            /\ pc' = "read"
       ELSE /\ k' = k
            /\ pc' = "table"
    /\ x' = << >>
    /\ y' = << >>
    /\ slope' = << >>
    /\ idx_th' = 0
    /\ fe' = NoFit
    /\ fp' = NoFit
    /\ best' = NoFit
    /\ UNCHANGED << slope_cutoff, persistence, smooth_window, exc,
                    table_written, summary_rows >>
    /\ UNCHANGED rmVars

\* mutant: rows.insert(0, res_trip), the newest result goes in front
AppendRowInFront ==
    /\ pc = "append"
    /\ rows' = << [city |-> k, method |-> "trip",
                   x_th |-> x[idx_th + 1], y_th |-> y[idx_th + 1],
                   model_selected |-> best.model,
                   param |-> best.param, r2 |-> best.r2,
                   aic_exp |-> fe.aic, aic_pow |-> fp.aic] >> \o rows
    /\ IF k < NumDatasets
       THEN /\ k' = k + 1
            /\ pc' = "read"
       ELSE /\ k' = k
            /\ pc' = "table"
    /\ x' = << >>
    /\ y' = << >>
    /\ slope' = << >>
    /\ idx_th' = 0
    /\ fe' = NoFit
    /\ fp' = NoFit
    /\ best' = NoFit
    /\ UNCHANGED << slope_cutoff, persistence, smooth_window, exc,
                    table_written, summary_rows >>
    /\ UNCHANGED rmVars

\* lines 195-205 and 240-244: the result row is appended, the figure saved,
\* and the loop goes on to the next dataset, or past the last one
AppendRow ==
    /\ pc = "append"
    /\ rows' = Append(rows, [city |-> k, method |-> "trip",
                             x_th |-> x[idx_th + 1], y_th |-> y[idx_th + 1],
                             model_selected |-> best.model,
                             param |-> best.param, r2 |-> best.r2,
                             aic_exp |-> fe.aic, aic_pow |-> fp.aic])
    /\ IF k < NumDatasets
       THEN /\ k' = k + 1
            /\ pc' = "read"
       ELSE /\ k' = k
            /\ pc' = "table"
    /\ x' = << >>
    /\ y' = << >>
    /\ slope' = << >>
    /\ idx_th' = 0
    /\ fe' = NoFit
    /\ fp' = NoFit
    /\ best' = NoFit
    /\ UNCHANGED << slope_cutoff, persistence, smooth_window, exc,
                    table_written, summary_rows >>
    /\ UNCHANGED rmVars

\* lines 247-264: the results table and the thresholds text are written
WriteTable ==
    /\ pc = "table"
    /\ table_written' = TRUE
    /\ pc' = "summary"
    /\ UNCHANGED << k, rows, x, y, slope_cutoff, persistence, smooth_window,
                    slope, idx_th, fe, fp, best, exc, summary_rows >>
    /\ UNCHANGED rmVars

\* lines 266-280: the universality summary is computed from df and written
Summarize ==
    /\ pc = "summary"
    /\ summary_rows' = UniversalityRows(rows)
    /\ pc' = "done"
    /\ UNCHANGED << k, rows, x, y, slope_cutoff, persistence, smooth_window,
                    slope, idx_th, fe, fp, best, exc, table_written >>
    /\ UNCHANGED rmVars

\* main(): the configuration is set, rows is empty, the loop starts
Init ==
    /\ pc = "read"
    /\ k = 1
    /\ rows = << >>
    /\ x = << >>
    /\ y = << >>
    /\ slope_cutoff = DefaultCutoff
    /\ persistence = DefaultPersistence
    /\ smooth_window = DefaultWindow
    /\ slope = << >>
    /\ idx_th = 0
    /\ fe = NoFit
    /\ fp = NoFit
    /\ best = NoFit
    /\ exc = "none"
    /\ table_written = FALSE
    /\ summary_rows = << >>
    /\ rm_a = << >>
    /\ rm_window = 0
    /\ rm_out = << >>
    /\ rm_ret = "none"

Next ==
    \/ ReadSeries
    \/ DetectThreshold
    \/ FitModels
    \/ AppendRow
    \/ WriteTable
    \/ Summarize

Spec == Init /\ [][Next]_vars

\* the summary on its own: a group of one method's selected parameters,
\* collected and written to the table, about to be summarised
InitSummary ==
    /\ pc = "summary"
    /\ k = NumDatasets
    /\ \E n \in 1..MaxGroup : \E ps \in [1..n -> ParamValues] :
          rows = [i \in 1..n |-> [method |-> "trip", param |-> RInt(ps[i])]]
    /\ x = << >>
    /\ y = << >>
    /\ slope_cutoff = DefaultCutoff
    /\ persistence = DefaultPersistence
    /\ smooth_window = DefaultWindow
    /\ slope = << >>
    /\ idx_th = 0
    /\ fe = NoFit
    /\ fp = NoFit
    /\ best = NoFit
    /\ exc = "none"
    /\ table_written = TRUE
    /\ summary_rows = << >>
    /\ rm_a = << >>
    /\ rm_window = 0
    /\ rm_out = << >>
    /\ rm_ret = "none"

NextSummary == Summarize

SpecSummary == InitSummary /\ [][NextSummary]_vars

\* the core on its own: one curve and one configuration, detect then fit
InitCore ==
    /\ pc = "detect"
    /\ k = 1
    /\ rows = << >>
    /\ \E n \in 0..MaxLen : \E c \in Curves(n) :
          /\ x = [i \in 1..n |-> c[i][1]]
          /\ y = [i \in 1..n |-> c[i][2]]
    /\ slope_cutoff \in Cutoffs
    /\ persistence \in Persistences
    /\ smooth_window \in Windows
    /\ slope = << >>
    /\ idx_th = 0
    /\ fe = NoFit
    /\ fp = NoFit
    /\ best = NoFit
    /\ exc = "none"
    /\ table_written = FALSE
    /\ summary_rows = << >>
    /\ rm_a = << >>
    /\ rm_window = 0
    /\ rm_out = << >>
    /\ rm_ret = "none"

NextCore == DetectThreshold \/ FitModels

SpecCore == InitCore /\ [][NextCore]_vars

\* rolling_median on its own: one array of floats and one window
SmoothValues == 0..2
SmoothWindows == -1..5

SmoothInputs ==
    UNION { [1..n -> { RInt(v) : v \in SmoothValues }] : n \in 0..MaxSmoothLen }

\* lines 62-70: a call of rolling_median; np.pad raises on an empty array
RollingMedian ==
    /\ pc = "rolling_median"
    /\ \E r \in { rolling_median(rm_a, rm_window) } :
           IF r.raised # "none"
           THEN /\ pc' = AfterRaise
                /\ exc' = r.raised
                /\ rm_out' = rm_out
                /\ rm_ret' = rm_ret
           ELSE /\ pc' = "returned"
                /\ exc' = exc
                /\ rm_out' = r.val
                /\ rm_ret' = ReturnedArray(rm_window)
    /\ UNCHANGED << k, rows, x, y, slope_cutoff, persistence, smooth_window,
                    slope, idx_th, fe, fp, best, table_written, summary_rows,
                    rm_a, rm_window >>

InitSmooth ==
    /\ pc = "rolling_median"
    /\ k = 1
    /\ rows = << >>
    /\ x = << >>
    /\ y = << >>
    /\ slope_cutoff = DefaultCutoff
    /\ persistence = DefaultPersistence
    /\ smooth_window = DefaultWindow
    /\ slope = << >>
    /\ idx_th = 0
    /\ fe = NoFit
    /\ fp = NoFit
    /\ best = NoFit
    /\ exc = "none"
    /\ table_written = FALSE
    /\ summary_rows = << >>
    /\ rm_a \in SmoothInputs
    /\ rm_window \in SmoothWindows
    /\ rm_out = << >>
    /\ rm_ret = "none"

NextSmooth == RollingMedian

SpecSmooth == InitSmooth /\ [][NextSmooth]_vars

\* compute_local_log_slope on its own: one curve and one window.  The
\* delays range wider than in SpecCore, so that curves bending upwards in
\* log-log space are among them.
SlopeDelayExps == {0, 1, 2, 5}

SortedLoads(n) ==
    { c \in [1..n -> Loads] : \A i \in 1..(n - 1) : c[i] <= c[i + 1] }

\* lines 73-80: a call of compute_local_log_slope; the raw slope of line 79
\* is the array handed to rolling_median, whose result is returned
ComputeLocalLogSlope ==
    /\ pc = "compute_local_log_slope"
    /\ \E dly \in { Gradient([i \in 1..Len(y) |-> LogB(y[i])]) } :
       \E dlx \in { Gradient([i \in 1..Len(x) |-> LogB(x[i])]) } :
           IF dly.raised # "none" \/ dlx.raised # "none"
           THEN /\ pc' = AfterRaise
                /\ exc' = SlopeOf(dly, dlx, smooth_window).raised
                /\ UNCHANGED rmVars
           ELSE \E raw \in { RawSlope(dly.val, dlx.val) } :
                \E r \in { SlopeOf(dly, dlx, smooth_window) } :
                    /\ rm_a' = raw
                    /\ rm_window' = smooth_window
                    /\ IF r.raised # "none"
                       THEN /\ pc' = AfterRaise
                            /\ exc' = r.raised
                            /\ rm_out' = rm_out
                            /\ rm_ret' = rm_ret
                       ELSE /\ pc' = "returned"
                            /\ exc' = exc
                            /\ rm_out' = r.val
                            /\ rm_ret' = ReturnedArray(smooth_window)
    /\ UNCHANGED << k, rows, x, y, slope_cutoff, persistence, smooth_window,
                    slope, idx_th, fe, fp, best, table_written, summary_rows >>

InitSlope ==
    /\ pc = "compute_local_log_slope"
    /\ k = 1
    /\ rows = << >>
    /\ \E n \in 0..MaxSlopeLen :
          /\ x \in SortedLoads(n)
          /\ y \in [1..n -> { Pow2(e) : e \in SlopeDelayExps }]
    /\ slope_cutoff = DefaultCutoff
    /\ persistence = DefaultPersistence
    /\ smooth_window \in Windows
    /\ slope = << >>
    /\ idx_th = 0
    /\ fe = NoFit
    /\ fp = NoFit
    /\ best = NoFit
    /\ exc = "none"
    /\ table_written = FALSE
    /\ summary_rows = << >>
    /\ rm_a = << >>
    /\ rm_window = 0
    /\ rm_out = << >>
    /\ rm_ret = "none"

NextSlope == ComputeLocalLogSlope

SpecSlope == InitSlope /\ [][NextSlope]_vars

\* the five analysis primitives, each called on inputs of its own:
\* detect_threshold and the two fits on a curve, compute_local_log_slope
\* on a curve, rolling_median on an array
InitCalls == InitCore \/ InitSlope \/ InitSmooth

NextCalls ==
    \/ DetectThreshold
    \/ FitModels
    \/ ComputeLocalLogSlope
    \/ RollingMedian

SpecCalls == InitCalls /\ [][NextCalls]_vars

\* ------------------------------------------------------------ the claims
\* the smoothed slope profile of the current curve, once detected
Profile == slope

\* points j .. j+p-1 (0-based) of profile s all have slope >= c
RunAt(s, c, p, j) ==
    /\ j + p <= Len(s)
    /\ \A t \in j..(j + p - 1) : RLe(RInt(c), s[t + 1])

HasRun(s, c, p) == \E j \in 0..(Len(s) - 1) : RunAt(s, c, p, j)

\* point j has slope >= c and lies in no run of p consecutive such points
Excursion(s, c, p, j) ==
    /\ RLe(RInt(c), s[j + 1])
    /\ ~ \E r \in 0..(Len(s) - 1) : RunAt(s, c, p, r) /\ r <= j /\ j < r + p

\* the threshold has been detected for a curve of two points or more
Detected == pc = "fit" /\ Len(x) >= 2

\* the post-threshold slice has been fitted
Fitted == pc = "append"

AicTie == ~ AicLt(fe.aic, fp.aic) /\ ~ AicLt(fp.aic, fe.aic)

\* C1 (as stated): the selected fit is the one with strictly lower AIC, and
\* on equal AIC values (both +infinity included) the exponential fit is
\* selected.
C1_TieSelectsExponential ==
    Fitted =>
        /\ AicLt(fe.aic, fp.aic) => best = fe
        /\ AicLt(fp.aic, fe.aic) => best = fp
        /\ AicTie => best = fe

\* C1 (amended): the selected fit is the one with strictly lower AIC, and on
\* equal AIC values (both +infinity included) the power-law fit is selected.
C1_TieSelectsPowerLaw ==
    Fitted =>
        /\ AicLt(fe.aic, fp.aic) => best = fe
        /\ AicLt(fp.aic, fe.aic) => best = fp
        /\ AicTie => best = fp

\* C1 witness: both fits done on one slice and their AIC values are equal
C1_Witness == Fitted /\ AicTie /\ best.model = "pow"

\* C2: when the profile has a run of `persistence` consecutive points with
\* slope >= cutoff, the returned index is the first point of the earliest
\* such window; a point below the cutoff ends a run, so the window returned
\* holds only points at or above the cutoff.
C2_EarliestPersistentRun ==
    Detected =>
        \A s \in { Profile } :
            HasRun(s, slope_cutoff, persistence) =>
                /\ RunAt(s, slope_cutoff, persistence, idx_th)
                /\ \A j \in 0..(idx_th - 1) :
                       ~ RunAt(s, slope_cutoff, persistence, j)

\* C2 witness: a run was found after an earlier, shorter run that a point
\* below the cutoff ended
C2_Witness ==
    /\ Detected
    /\ persistence >= 2
    /\ idx_th >= 2
    /\ \E s \in { Profile } :
          /\ HasRun(s, slope_cutoff, persistence)
          /\ RLe(RInt(slope_cutoff), s[1])

C4_DegenerateCurveReturnsZero ==
    (Len(x) <= 1 /\ pc # "detect") => (exc = "none" /\ idx_th = 0)

\* C5 (as stated): for cutoffs c1 <= c2 (same persistence and window) the
\* index returned for c2 is >= the index returned for c1.
C5_ThresholdMonotone ==
    Detected =>
        \A c1 \in Cutoffs :
            c1 <= slope_cutoff =>
                detect_threshold(x, y, c1, persistence, smooth_window).val <= idx_th

\* C5 (amended): for cutoffs c1 <= c2, when the profile has a run of
\* `persistence` consecutive points >= c2 (the index for c2 comes from the
\* persistent-run rule), the index returned for c2 is >= the one for c1.
C5_MonotoneWhenRunFound ==
    Detected =>
        \A s \in { Profile } :
            HasRun(s, slope_cutoff, persistence) =>
                \A c1 \in Cutoffs :
                    c1 <= slope_cutoff =>
                        detect_threshold(x, y, c1, persistence, smooth_window).val
                            <= idx_th

\* C5 witness: a run exists at the higher cutoff and a lower cutoff gives a
\* strictly earlier index
C5_Witness ==
    /\ Detected
    /\ \E s \in { Profile } : HasRun(s, slope_cutoff, persistence)
    /\ \E c1 \in Cutoffs :
          /\ c1 < slope_cutoff
          /\ detect_threshold(x, y, c1, persistence, smooth_window).val < idx_th

\* C6 (as stated): for persistence >= 2 the returned index is never a point
\* with slope >= cutoff that lies in no run of `persistence` such points.
C6_NeverAnExcursion ==
    (Detected /\ persistence >= 2) =>
        \A s \in { Profile } :
            ~ Excursion(s, slope_cutoff, persistence, idx_th)

\* C6 (amended): for persistence >= 2, when the profile has a run of
\* `persistence` consecutive points >= cutoff, the returned index is not
\* such an isolated point.
C6_NoExcursionWhenRunFound ==
    (Detected /\ persistence >= 2) =>
        \A s \in { Profile } :
            HasRun(s, slope_cutoff, persistence) =>
                ~ Excursion(s, slope_cutoff, persistence, idx_th)

\* C6 witness: the profile has an isolated point above the cutoff and a
\* persistent run after it, and the run's first point was returned
C6_Witness ==
    /\ Detected
    /\ persistence >= 2
    /\ \E s \in { Profile } :
          /\ HasRun(s, slope_cutoff, persistence)
          /\ \E j \in 0..(idx_th - 1) :
                 Excursion(s, slope_cutoff, persistence, j)

\* C7: on a post-threshold slice of 1 or 2 points both fits return a
\* FitResult with AIC = +infinity, nothing is raised, and the selection
\* returns one of the two.
C7_DegenerateFitIsInfinite ==
    (Fitted /\ Len(x) - idx_th \in {1, 2}) =>
        /\ exc = "none"
        /\ fe.model = "exp" /\ fe.aic.kind = "inf"
        /\ fp.model = "pow" /\ fp.aic.kind = "inf"
        /\ fe.n = Len(x) - idx_th /\ fp.n = fe.n
        /\ best \in {fe, fp}

\* C7 witness: a slice of exactly 2 points of a longer curve was fitted
C7_Witness == Fitted /\ Len(x) > 2 /\ Len(x) - idx_th = 2

\* the summary has been computed from a group of at least one parameter
Summarized == pc = "done" /\ Len(summary_rows) = 1

\* the selected parameters the summary read, as integers (SpecSummary)
GroupParams == [i \in 1..Len(rows) |-> rows[i].param[1]]

\* C8: a group of exactly 1 value gets its mean, with std and coefficient
\* of variation not-a-number and nothing raised; a group of 2 or more gets
\* the std with the n-1 divisor; the coefficient of variation is
\* not-a-number exactly when the mean is 0 or the std is not-a-number, and
\* is std/mean otherwise.
C8_SummaryOfSmallGroups ==
    (pc = "done" /\ Len(rows) >= 1) =>
        /\ exc = "none"
        /\ Len(summary_rows) = 1
        /\ \A r \in { summary_rows[1] } :
           \A n \in { Len(rows) } :
           \A total \in { SumSeq(GroupParams) } :
           \A squares \in { SumSeq([i \in 1..n |-> GroupParams[i] * GroupParams[i]]) } :
              /\ ~ r.mean_param.nan
              /\ r.mean_param.val = Rat(total, n)
              /\ n = 1 => r.std_param.nan /\ r.cov.nan
              /\ n >= 2 =>
                    /\ ~ r.std_param.nan
                    /\ r.std_param.sq = Rat(n * squares - total * total, n * (n - 1))
              /\ r.cov.nan <=> (total = 0 \/ r.std_param.nan)
              /\ ~ r.cov.nan =>
                    /\ RMul(r.cov.sq, RMul(r.mean_param.val, r.mean_param.val))
                           = r.std_param.sq
                    /\ r.cov.sgn = r.std_param.sgn * Sgn(total)

\* C8 witness: a group of exactly one value has been summarised
C8_Witness ==
    /\ Summarized
    /\ Len(rows) = 1
    /\ ~ summary_rows[1].mean_param.nan
    /\ summary_rows[1].std_param.nan

\* C9 (as stated): a failure while processing one dataset does not surface
\* as an uncaught exception; the run goes on with the remaining datasets
\* until their results are collected and reported.
C9_BatchSurvivesFailure ==
    /\ exc = "none"
    /\ pc # "done" => ENABLED Next

\* C9 (amended): a failure while processing one dataset surfaces as an
\* uncaught exception that ends the run: the results of the datasets before
\* it stay collected, no later dataset is processed, and neither the
\* results table nor the summary is written.
C9_FailureEndsRun ==
    /\ exc # "none" <=> pc = "crashed"
    /\ pc = "crashed" =>
          /\ Len(rows) = k - 1
          /\ ~ table_written
          /\ summary_rows = << >>
          /\ ~ ENABLED Next

\* C9 witness: the second dataset failed after the first one's result had
\* been collected
C9_Witness == pc = "crashed" /\ k = 2 /\ Len(rows) = 1

\* C10 (as stated): the curve handed to detect_threshold is strictly
\* ascending in load and has delay > 0 at every point.
C10_StrictlyAscendingPositive ==
    pc = "detect" =>
        /\ \A i \in 1..(Len(x) - 1) : x[i] < x[i + 1]
        /\ \A i \in 1..Len(y) : y[i] > 0

\* C10 (amended): the curve handed to detect_threshold is ascending in load
\* with equal loads kept (rows are sorted, not deduplicated), and has
\* delay > 0 at every point.
C10_AscendingPositive ==
    pc = "detect" =>
        /\ Len(x) = Len(y)
        /\ \A i \in 1..(Len(x) - 1) : x[i] <= x[i + 1]
        /\ \A i \in 1..Len(y) : y[i] > 0

\* C10 witness: a curve with two rows of one load and different delays has
\* been read
C10_Witness ==
    /\ pc = "detect"
    /\ Len(x) >= 2
    /\ x[1] = x[2]
    /\ y[1] # y[2]

\* a call of rolling_median has ended, by a return or by an exception
SmoothEnded == pc \in { "returned", "crashed" }

\* C11: for every sequence v (the empty one included) and every window <= 1,
\* rolling_median(v, window) returns, without raising, a sequence equal to v
\* element by element.
C11_SmootherIdentity ==
    (SmoothEnded /\ rm_window <= 1) =>
        /\ pc = "returned"
        /\ exc = "none"
        /\ Len(rm_out) = Len(rm_a)
        /\ \A i \in 1..Len(rm_a) : rm_out[i] = rm_a[i]

\* C11 witness: a window below 1 returned a sequence that is neither
\* constant nor sorted
C11_Witness ==
    /\ pc = "returned"
    /\ rm_window < 1
    /\ Len(rm_a) >= 3
    /\ RLt(rm_a[2], rm_a[1])
    /\ RLt(rm_a[2], rm_a[3])
    /\ rm_out = rm_a

\* every element of the non-empty sequence s is its first one
IsConstant(s) == Len(s) >= 1 /\ \A i \in 1..Len(s) : s[i] = s[1]

\* C12: for a non-empty sequence whose elements all equal one value c and
\* for every window (odd or even, shorter or longer than the sequence),
\* rolling_median returns the constant sequence c of the same length.
C12_ConstantUnchanged ==
    (SmoothEnded /\ IsConstant(rm_a)) =>
        /\ pc = "returned"
        /\ Len(rm_out) = Len(rm_a)
        /\ \A i \in 1..Len(rm_a) : rm_out[i] = rm_a[1]

\* C12 witness: a constant sequence of a value other than 0 came back from
\* an even window longer than the sequence
C12_Witness ==
    /\ pc = "returned"
    /\ IsConstant(rm_a)
    /\ rm_a[1] # RInt(0)
    /\ Len(rm_a) >= 2
    /\ rm_window > Len(rm_a)
    /\ rm_window % 2 = 0
    /\ IsConstant(rm_out)

\* element t (1-based) of the sequence s with h copies of its first element
\* put before it and h copies of its last element put after it
EdgePadded(s, h, t) ==
    IF t <= h THEN s[1]
    ELSE IF t > h + Len(s) THEN s[Len(s)]
    ELSE s[t - h]

\* v is the kth smallest (1-based) of the w consecutive elements that start
\* at position i of the padded sequence
IsKthOfWindow(s, h, i, w, v, kth) ==
    /\ \E j \in 0..(w - 1) : EdgePadded(s, h, i + j) = v
    /\ Cardinality({ j \in 0..(w - 1) : RLt(EdgePadded(s, h, i + j), v) }) <= kth - 1
    /\ Cardinality({ j \in 0..(w - 1) : RLt(v, EdgePadded(s, h, i + j)) }) <= w - kth

\* m is the median of that window: its middle element for an odd w, the
\* mean of its two middle elements for an even w
IsMedianOfWindow(s, h, i, w, m) ==
    IF w % 2 = 1 THEN IsKthOfWindow(s, h, i, w, m, (w + 1) \div 2)
    ELSE \E lo, hi \in { s[j] : j \in 1..Len(s) } :
            /\ IsKthOfWindow(s, h, i, w, lo, w \div 2)
            /\ IsKthOfWindow(s, h, i, w, hi, w \div 2 + 1)
            /\ RMul(RInt(2), m) = RAdd(lo, hi)

\* C17: for a non-empty sequence a of length n and a window > 1,
\* rolling_median returns a sequence of length n whose element i is the
\* median of the `window` consecutive elements starting at position i of a
\* with window // 2 copies of a[0] put before it and window // 2 copies of
\* a[n-1] put after it.
C17_RollingMedianDefinition ==
    (SmoothEnded /\ Len(rm_a) >= 1 /\ rm_window > 1) =>
        /\ pc = "returned"
        /\ Len(rm_out) = Len(rm_a)
        /\ \A i \in 1..Len(rm_a) :
               IsMedianOfWindow(rm_a, rm_window \div 2, i, rm_window, rm_out[i])

\* C17 witness: an even window over a sequence that goes down and up again
\* gave a median that is no element of the sequence
C17_Witness ==
    /\ pc = "returned"
    /\ rm_window > 1
    /\ rm_window % 2 = 0
    /\ Len(rm_a) >= 3
    /\ RLt(rm_a[2], rm_a[1])
    /\ RLt(rm_a[2], rm_a[3])
    /\ \E i \in 1..Len(rm_out) : rm_out[i][2] = 2

\* compute_local_log_slope has returned for the curve x, y
SlopeReturned == pc = "returned" /\ Len(x) >= 2

\* the logarithms of the values of s grow strictly
LogIncreasing(s) == \A i \in 1..(Len(s) - 1) : LogB(s[i]) < LogB(s[i + 1])

\* the curve does not bend downwards in log-log space: the slope of each
\* segment is at least that of the one before
LogLogConvex(xs, ys) ==
    \A i \in 1..(Len(xs) - 2) :
        (LogB(ys[i + 1]) - LogB(ys[i])) * (LogB(xs[i + 2]) - LogB(xs[i + 1]))
            <= (LogB(ys[i + 2]) - LogB(ys[i + 1])) * (LogB(xs[i + 1]) - LogB(xs[i]))

\* C13: for a curve of at least 3 points whose log(load) and log(delay) both
\* grow strictly and which is convex in log-log space, the slope returned
\* by compute_local_log_slope with smooth_window = 3 is strictly positive
\* at every interior index.
C13_InteriorSlopePositive ==
    (/\ SlopeReturned
     /\ smooth_window = DefaultWindow
     /\ Len(x) >= 3
     /\ LogIncreasing(x)
     /\ LogIncreasing(y)
     /\ LogLogConvex(x, y)) =>
        /\ Len(rm_out) = Len(x)
        /\ \A i \in 2..(Len(x) - 1) : RLt(RInt(0), rm_out[i])

\* C13 witness: a curve of 4 points that bends upwards, its last segment
\* steeper than its first
C13_Witness ==
    /\ SlopeReturned
    /\ smooth_window = DefaultWindow
    /\ Len(x) >= 4
    /\ LogIncreasing(x)
    /\ LogIncreasing(y)
    /\ LogLogConvex(x, y)
    /\ (LogB(y[2]) - LogB(y[1])) * (LogB(x[4]) - LogB(x[3]))
           < (LogB(y[4]) - LogB(y[3])) * (LogB(x[2]) - LogB(x[1]))
    /\ RLt(rm_out[2], rm_out[3])

\* np.gradient's finite difference of the integer sequence f at the 1-based
\* position i, times 2: forward at the first point, backward at the last,
\* central elsewhere
TwiceFiniteDifference(f, i) ==
    IF i = 1 THEN 2 * (f[2] - f[1])
    ELSE IF i = Len(f) THEN 2 * (f[Len(f)] - f[Len(f) - 1])
    ELSE f[i + 1] - f[i - 1]

\* the logarithms of the loads and of the delays of the current curve
LogLoads == [i \in 1..Len(x) |-> LogB(x[i])]
LogDelays == [i \in 1..Len(y) |-> LogB(y[i])]

\* C18: for a curve of at least 2 points compute_local_log_slope returns a
\* sequence as long as the curve; where the finite difference of log(load)
\* is exactly zero the raw slope handed to the smoother is 0, and elsewhere
\* it is the finite difference of log(delay) over that of log(load)
\* (forward at the first point, backward at the last, central elsewhere).
C18_ZeroDenominatorSlope ==
    (pc # "compute_local_log_slope" /\ Len(x) >= 2) =>
        /\ pc = "returned"
        /\ Len(rm_out) = Len(x)
        /\ Len(rm_a) = Len(x)
        /\ \A i \in 1..Len(x) :
               IF TwiceFiniteDifference(LogLoads, i) = 0
               THEN rm_a[i] = RInt(0)
               ELSE rm_a[i][1] * TwiceFiniteDifference(LogLoads, i)
                        = rm_a[i][2] * TwiceFiniteDifference(LogDelays, i)

\* C18 witness: three points of one load and growing delay, so that the
\* central difference of log(load) is zero where that of log(delay) is not,
\* followed by a point of a larger load, where the raw slope is not zero
C18_Witness ==
    /\ SlopeReturned
    /\ Len(x) >= 4
    /\ x[1] = x[3]
    /\ x[3] < x[4]
    /\ y[1] < y[3]
    /\ y[3] < y[4]
    /\ rm_a[2] = RInt(0)
    /\ rm_a[4] # RInt(0)

\* C14 (as stated, from the docstring of detect_threshold): when no run of
\* `persistence` consecutive points with slope >= slope_cutoff is found,
\* detect_threshold returns index 0.
C14_FallbackReturnsZero ==
    Detected =>
        \A s \in { Profile } :
            ~ HasRun(s, slope_cutoff, persistence) => idx_th = 0

\* the collection holds one result for each of the first Len(rows) datasets
\* of configs, in the order of configs
InConfigurationOrder ==
    /\ Len(rows) <= NumDatasets
    /\ \A i \in 1..Len(rows) : rows[i].city = i

\* the table and the summary exist only once every dataset's result is in
ReadAfterLastAppend ==
    (table_written \/ summary_rows # << >> \/ pc \in { "table", "summary", "done" })
        => Len(rows) = NumDatasets

\* a step leaves the collection alone or appends the current dataset's
\* result to it, and leaves it alone once the table or the summary reads it
AppendOnly ==
    /\ \/ rows' = rows
       \/ /\ Len(rows') = Len(rows) + 1
          /\ SubSeq(rows', 1, Len(rows)) = rows
          /\ rows'[Len(rows')].city = k
          /\ pc = "append"
    /\ (pc \in { "table", "summary", "done" } \/ table_written) => rows' = rows
    /\ pc = "summary" => summary_rows' = UniversalityRows(rows)

\* the run has ended, with the summary written or with an exception
RunEnded == pc \in { "done", "crashed" }

\* C19 (as stated): in every run the collection receives exactly one result
\* per configured dataset, each appended once and in configuration order;
\* the summary and the table are computed only after the last dataset's
\* result is appended, and no result is added or changed after that.
C19_EveryRunCollectsAll ==
    /\ [](InConfigurationOrder /\ ReadAfterLastAppend)
    /\ [](RunEnded => (Len(rows) = NumDatasets /\ table_written))
    /\ [][AppendOnly]_vars

\* C19 (amended): in every run the collection receives at most one result
\* per configured dataset, each appended once and in configuration order,
\* and exactly one per dataset in a run that reaches the table and the
\* summary, which are computed only after the last dataset's result is
\* appended; no result is added or changed after that.  A run in which a
\* dataset fails ends with the results of the datasets before it only.
C19_FanInOrdering ==
    /\ [](InConfigurationOrder /\ ReadAfterLastAppend)
    /\ [](pc = "done" => (Len(rows) = NumDatasets /\ table_written))
    /\ [](pc = "crashed" => Len(rows) = k - 1)
    /\ [][AppendOnly]_vars

\* C19 witness: the summary has been computed from the results of all the
\* datasets, two of them with different thresholds
C19_Witness ==
    /\ pc = "done"
    /\ Len(rows) = NumDatasets
    /\ table_written
    /\ summary_rows = UniversalityRows(rows)
    /\ summary_rows # << >>
    /\ rows[1].city = 1
    /\ rows[2].city = 2
    /\ rows[1].y_th # rows[2].y_th

\* lines 163-205 as a function of the dataset's name, its curve and the
\* configuration alone: the row analyze_city_method returns
ResultOfFits(city, xs, ys, idx, e, p) ==
    [city |-> city, method |-> "trip",
     x_th |-> xs[idx + 1], y_th |-> ys[idx + 1],
     model_selected |-> SelectBest(e, p).model,
     param |-> SelectBest(e, p).param, r2 |-> SelectBest(e, p).r2,
     aic_exp |-> e.aic, aic_pow |-> p.aic]

ResultAtIndex(city, xs, ys, idx) ==
    ResultOfFits(city, xs, ys, idx,
                 fit_exponential(SliceFrom(xs, idx), SliceFrom(ys, idx)),
                 fit_powerlaw(SliceFrom(xs, idx), SliceFrom(ys, idx)))

DatasetResult(city, xs, ys, cutoff, persist, window) ==
    ResultAtIndex(city, xs, ys, detect_threshold(xs, ys, cutoff, persist, window).val)

\* the rows rs in the order the permutation f of their positions gives
Reordered(rs, f) == [i \in 1..Len(rs) |-> rs[f[i]]]

Orders(n) ==
    { f \in [1..n -> 1..n] : \A i, j \in 1..n : i # j => f[i] # f[j] }

C22_ThresholdIndexUsable ==
    (Len(x) >= 2 /\ pc # "detect") =>
        /\ exc # "IndexError"
        /\ 0 <= idx_th
        /\ idx_th <= Len(x) - 1
        /\ Len(SliceFrom(x, idx_th)) >= 1
        /\ HasRun(Profile, slope_cutoff, persistence) =>
               /\ idx_th + persistence <= Len(x)
               /\ Len(SliceFrom(y, idx_th)) >= persistence
        /\ Fitted => (fe.n = Len(x) - idx_th /\ fp.n = Len(x) - idx_th)

\* a persistent run of two points or more that ends at the curve's last
\* point: the slice has exactly `persistence` points
C22_Witness ==
    /\ Detected
    /\ persistence >= 2
    /\ HasRun(Profile, slope_cutoff, persistence)
    /\ idx_th + persistence = Len(x)
    /\ idx_th >= 1

\* the values of the sequence s
Elements(s) == { s[j] : j \in 1..Len(s) }

\* C23: the smoother stays within the input's range.  For every non-empty
\* sequence a and every window >= 1, rolling_median returns, and every
\* element of the result is >= the minimum of a and <= the maximum of a;
\* when the window is odd, every element of the result is an element of a.
C23_SmootherWithinRange ==
    (SmoothEnded /\ Len(rm_a) >= 1 /\ rm_window >= 1) =>
        /\ pc = "returned"
        /\ \A i \in 1..Len(rm_out) :
               /\ \E lo \in Elements(rm_a) : RLe(lo, rm_out[i])
               /\ \E hi \in Elements(rm_a) : RLe(rm_out[i], hi)
               /\ rm_window % 2 = 1 => rm_out[i] \in Elements(rm_a)

\* an odd window above 1 took the spike at the second position out of the
\* sequence: every element of the result lies below it
C23_Witness ==
    /\ pc = "returned"
    /\ rm_window > 1
    /\ rm_window % 2 = 1
    /\ Len(rm_a) >= 3
    /\ RLt(rm_a[1], rm_a[2])
    /\ RLt(rm_a[3], rm_a[2])
    /\ Len(rm_out) = Len(rm_a)
    /\ \A i \in 1..Len(rm_out) : RLt(rm_out[i], rm_a[2])

====
